---- MODULE Spec2Model ----
(***************************************************************************)
(* json-versioning: the in-memory document/version store of                *)
(* src/services/api.ts and the save logic of components/JsonEditor.tsx.    *)
(*                                                                         *)
(* Texts are modelled as records [v, p]: v is the JSON value the text      *)
(* parses to (0: the text does not parse), p says whether the text is      *)
(* the 2-space pretty print JSON.stringify(value, null, 2) produces.       *)
(* Timestamps are integers (milliseconds): Date.toISOString() followed by  *)
(* new Date(s).getTime() gives back the same millisecond count, so         *)
(* createdAt is kept as that count.                                        *)
(***************************************************************************)
EXTENDS Integers, Sequences, FiniteSets, TLC

(* ---- bounds ---- *)
MaxDocuments == 2
MaxVersions == 4
MaxTime == 1
MaxPending == 2

(* ---- program constants ---- *)
OneDay == 86400000

Undefined == "undefined"

(* ---- texts and JSON ---- *)
\* the JSON values in play: those of the two example contents
JsonValues == {1, 2}
BadText == [v |-> 0, p |-> FALSE]
Texts == [v : JsonValues, p : BOOLEAN] \cup {BadText}
PrettyTexts == {t \in Texts : t.p}

CanParse(text) == text.v # 0
\* JSON.parse(text), for a text that parses
JSON_parse(text) == [json |-> text.v]
\* JSON.stringify(value, null, 2)
JSON_stringify(value) == [v |-> value.json, p |-> TRUE]

\* jsondiffpatch.diff(a, b): undefined when the two sides are equal,
\* otherwise a delta that replaces a by b
NoDiff == <<>>
jsondiffpatch_diff(a, b) == IF a = b THEN NoDiff ELSE <<a, b>>

ExampleDocId == "example-doc-1"
ExampleVersion1 == "example-version-1"
ExampleVersion2 == "example-version-2"
\* an id no document and no version carries
UnknownId == "no-such-id"

version1Content == [v |-> 1, p |-> TRUE]
version2Content == [v |-> 2, p |-> TRUE]

\* obj.field of a JavaScript object: undefined when the object has no such field
Get(obj, field) == IF field \in DOMAIN obj THEN obj[field] ELSE Undefined

VARIABLES documents, versions, now, last, editor, pending, race,
          viewer, viewerPending

storeVars == <<documents, versions>>
editorVars == <<editor, pending, race>>
viewerVars == <<viewer, viewerPending>>
vars == <<documents, versions, now, last, editor, pending, race,
          viewer, viewerPending>>

(* ---- array helpers ---- *)
RECURSIVE Filter(_, _)
Filter(s, documentId) ==
  IF s = <<>> THEN <<>>
  ELSE IF Head(s).documentId = documentId
       THEN <<Head(s)>> \o Filter(Tail(s), documentId)
       ELSE Filter(Tail(s), documentId)

\* Array.prototype.find over documents: index of the first match, 0 if none
FindDocument(docs, id) ==
  IF \E i \in DOMAIN docs : docs[i].id = id
  THEN CHOOSE i \in DOMAIN docs :
         docs[i].id = id /\ \A j \in DOMAIN docs : docs[j].id = id => i <= j
  ELSE 0

\* versions.find((v) => v.documentId === documentId && v.id === versionId)
FindVersion(vs, documentId, versionId) ==
  IF \E i \in DOMAIN vs : vs[i].documentId = documentId /\ vs[i].id = versionId
  THEN CHOOSE i \in DOMAIN vs :
         /\ vs[i].documentId = documentId /\ vs[i].id = versionId
         /\ \A j \in DOMAIN vs :
              (vs[j].documentId = documentId /\ vs[j].id = versionId) => i <= j
  ELSE 0

\* Array.prototype.sort with (a, b) => time(b.createdAt) - time(a.createdAt):
\* newest first; the sort is stable, so equal timestamps keep array order
InsertByCreatedAt(sorted, v) ==
  LET k == Cardinality({i \in DOMAIN sorted : sorted[i].createdAt >= v.createdAt})
  IN SubSeq(sorted, 1, k) \o <<v>> \o SubSeq(sorted, k + 1, Len(sorted))

RECURSIVE SortInto(_, _)
SortInto(sorted, rest) ==
  IF rest = <<>> THEN sorted
  ELSE SortInto(InsertByCreatedAt(sorted, Head(rest)), Tail(rest))

sortedVersions(vs) == SortInto(<<>>, vs)

(* ---- the store (services/api.ts) ---- *)

\* Math.random().toString(36).substring(2, 15): a string no document and no
\* version carries yet (the random strings are taken not to repeat)
IdNames == <<"r01", "r02", "r03", "r04", "r05", "r06", "r07", "r08",
             "r09", "r10", "r11", "r12", "r13", "r14", "r15", "r16">>
UsedIds(docs, vs) ==
  {docs[i].id : i \in DOMAIN docs} \cup {vs[i].id : i \in DOMAIN vs}
generateId(docs, vs) ==
  IdNames[CHOOSE i \in DOMAIN IdNames :
            /\ IdNames[i] \notin UsedIds(docs, vs)
            /\ \A j \in 1..(i - 1) : IdNames[j] \in UsedIds(docs, vs)]

exampleDocuments ==
  << [id |-> ExampleDocId, content |-> version2Content,
      createdAt |-> OneDay] >>
exampleVersions ==
  << [id |-> ExampleVersion1, documentId |-> ExampleDocId,
      content |-> version1Content, createdAt |-> OneDay - OneDay,
      isAutoSave |-> FALSE],
     [id |-> ExampleVersion2, documentId |-> ExampleDocId,
      content |-> version2Content, createdAt |-> OneDay,
      isAutoSave |-> FALSE,
      diff |-> jsondiffpatch_diff(JSON_parse(version1Content),
                                  JSON_parse(version2Content))] >>

initializeExamples ==
  /\ documents = exampleDocuments
  /\ versions = exampleVersions

\* what a call leaves behind: whether it returned or threw, the value
\* returned or the message thrown, and the two collections afterwards
Returned(result, docs, vs) ==
  [ok |-> TRUE, result |-> result, documents |-> docs, versions |-> vs]
Threw(message, docs, vs) ==
  [ok |-> FALSE, result |-> message, documents |-> docs, versions |-> vs]

\* a createDocument that also stores the initial content as a first version
createDocumentCall_WithVersion(docs, vs, content, t) ==
  LET newDocument == [id |-> generateId(docs, vs), content |-> content,
                      createdAt |-> t]
      created == Append(docs, newDocument)
      first == [id |-> generateId(created, vs), documentId |-> newDocument.id,
                content |-> content, createdAt |-> t, isAutoSave |-> FALSE]
  IN Returned(newDocument, created, Append(vs, first))

createDocumentCall(docs, vs, content, t) ==
  LET newDocument == [id |-> generateId(docs, vs), content |-> content,
                      createdAt |-> t]
  IN Returned(newDocument, Append(docs, newDocument), vs)

getDocumentCall(docs, vs, id) ==
  LET i == FindDocument(docs, id)
  IN IF i = 0 THEN Threw("Document not found", docs, vs)
     ELSE Returned(docs[i], docs, vs)

\* a createVersion that compares the two texts as they are
versionDiff_OfTexts(oldText, newText) == jsondiffpatch_diff(oldText, newText)

\* the diff createVersion stores: of the parsed values, or of the two texts
\* when either side does not parse
versionDiff(oldText, newText) ==
  IF CanParse(oldText) /\ CanParse(newText)
  THEN jsondiffpatch_diff(JSON_parse(oldText), JSON_parse(newText))
  ELSE jsondiffpatch_diff(oldText, newText)

newVersion(id, documentId, content, isAutoSave, docContent, t) ==
  [id |-> id, documentId |-> documentId, content |-> content,
   createdAt |-> t, isAutoSave |-> isAutoSave,
   diff |-> versionDiff(docContent, content)]

\* a documents.map without the test on the id
updateDocuments_Every(docs, documentId, content) ==
  [i \in DOMAIN docs |-> [docs[i] EXCEPT !.content = content]]

updateDocuments(docs, documentId, content) ==
  [i \in DOMAIN docs |->
     IF docs[i].id = documentId THEN [docs[i] EXCEPT !.content = content]
     ELSE docs[i]]

\* a createVersion that rewrites the newest stored version instead of appending
createVersionCall_Overwrite(docs, vs, documentId, content, isAutoSave, t) ==
  LET i == FindDocument(docs, documentId)
  IN IF i = 0 THEN Threw("Document not found", docs, vs)
     ELSE LET v == newVersion(generateId(docs, vs), documentId, content,
                              isAutoSave, docs[i].content, t)
          IN Returned(v, updateDocuments(docs, documentId, content),
                      [vs EXCEPT ![Len(vs)] = v])

\* a createVersion that throws when the new content does not parse
createVersionCall_RejectsUnparsable(docs, vs, documentId, content, isAutoSave, t) ==
  LET i == FindDocument(docs, documentId)
  IN IF i = 0 THEN Threw("Document not found", docs, vs)
     ELSE IF ~CanParse(content) THEN Threw("Invalid content", docs, vs)
     ELSE LET v == newVersion(generateId(docs, vs), documentId, content,
                              isAutoSave, docs[i].content, t)
          IN Returned(v, updateDocuments(docs, documentId, content),
                      Append(vs, v))

\* a createVersion that stores the version before it looks for the document
createVersionCall_Orphan(docs, vs, documentId, content, isAutoSave, t) ==
  LET i == FindDocument(docs, documentId)
      old == IF i = 0 THEN content ELSE docs[i].content
      v == newVersion(generateId(docs, vs), documentId, content, isAutoSave,
                      old, t)
  IN IF i = 0 THEN Threw("Document not found", docs, Append(vs, v))
     ELSE Returned(v, updateDocuments(docs, documentId, content), Append(vs, v))

createVersionCall(docs, vs, documentId, content, isAutoSave, t) ==
  LET i == FindDocument(docs, documentId)
  IN IF i = 0 THEN Threw("Document not found", docs, vs)
     ELSE LET v == newVersion(generateId(docs, vs), documentId, content,
                              isAutoSave, docs[i].content, t)
          IN Returned(v, updateDocuments(docs, documentId, content),
                      Append(vs, v))

getVersionsCall(docs, vs, documentId) ==
  Returned(Filter(vs, documentId), docs, vs)

\* a merge version tagged with its own id
mergeVersion_NamesItself(id, documentId, source, t) ==
  [id |-> id, documentId |-> documentId, content |-> source.content,
   createdAt |-> t, isAutoSave |-> FALSE, mergedFrom |-> id]

mergeVersion(id, documentId, source, t) ==
  [id |-> id, documentId |-> documentId, content |-> source.content,
   createdAt |-> t, isAutoSave |-> FALSE, mergedFrom |-> source.id]

mergeDocuments(docs, i, source) ==
  [docs EXCEPT ![i].content = source.content]

\* the first version with the id, whichever document owns it (0: none)
FindVersionOfAnyDocument(vs, versionId) ==
  IF \E j \in DOMAIN vs : vs[j].id = versionId
  THEN CHOOSE j \in DOMAIN vs :
         vs[j].id = versionId /\ \A h \in 1..(j - 1) : vs[h].id # versionId
  ELSE 0

\* a mergeVersions that looks the version up by its id alone
mergeVersionsCall_AnyDocument(docs, vs, documentId, versionId, t) ==
  LET k == FindVersionOfAnyDocument(vs, versionId)
      i == FindDocument(docs, documentId)
  IN IF k = 0 THEN Threw("Version not found", docs, vs)
     ELSE IF i = 0 THEN Threw("Document not found", docs, vs)
     ELSE LET merged == mergeDocuments(docs, i, vs[k])
          IN Returned(merged[i], merged,
                      Append(vs, mergeVersion(generateId(docs, vs), documentId,
                                              vs[k], t)))

mergeVersionsCall(docs, vs, documentId, versionId, t) ==
  LET k == FindVersion(vs, documentId, versionId)
      i == FindDocument(docs, documentId)
  IN IF k = 0 THEN Threw("Version not found", docs, vs)
     ELSE IF i = 0 THEN Threw("Document not found", docs, vs)
     ELSE LET merged == mergeDocuments(docs, i, vs[k])
          IN Returned(merged[i], merged,
                      Append(vs, mergeVersion(generateId(docs, vs), documentId,
                                              vs[k], t)))

\* a getVersion that looks the version up by its id alone
getVersionCall_AnyDocument(docs, vs, documentId, versionId) ==
  LET k == FindVersionOfAnyDocument(vs, versionId)
  IN IF k = 0 THEN Threw("Version not found", docs, vs)
     ELSE Returned(vs[k], docs, vs)

getVersionCall(docs, vs, documentId, versionId) ==
  LET k == FindVersion(vs, documentId, versionId)
  IN IF k = 0 THEN Threw("Version not found", docs, vs)
     ELSE Returned(vs[k], docs, vs)

\* the head version as the components compute it: getVersions(documentId),
\* sort by createdAt descending, element [0]; as a sequence of at most one
\* version (empty: [0] of an empty array is undefined)
headVersion(vs, documentId) ==
  LET sorted == sortedVersions(Filter(vs, documentId))
  IN IF sorted = <<>> THEN <<>> ELSE <<sorted[1]>>

(* ---- updating the current version (PUT /documents/:id/current-version) ---- *)

\* the version record with its patch set, or without one when there is none
WithPatch(v, content, patch) ==
  [f \in (DOMAIN v) \cup {"diff"} |->
     IF f = "diff" THEN patch ELSE IF f = "content" THEN content ELSE v[f]]
WithoutPatch(v, content) ==
  [f \in (DOMAIN v) \ {"diff"} |-> IF f = "content" THEN content ELSE v[f]]

\* the head version rewritten with the new content; its patch is taken
\* against the version listed right after it, its parent
updatedHead(sorted, content) ==
  IF Len(sorted) > 1
  THEN WithPatch(sorted[1], content, versionDiff(sorted[2].content, content))
  ELSE WithoutPatch(sorted[1], content)

\* an update of the current version that appends the content as a new version
updateCurrentVersionCall_Append(docs, vs, documentId, content) ==
  LET i == FindDocument(docs, documentId)
      sorted == sortedVersions(Filter(vs, documentId))
  IN IF i = 0 THEN Threw("Document not found", docs, vs)
     ELSE IF sorted = <<>> THEN Threw("Version not found", docs, vs)
     ELSE LET v == [updatedHead(sorted, content) EXCEPT !.id = generateId(docs, vs)]
          IN Returned(v, updateDocuments(docs, documentId, content),
                      Append(vs, v))

updateCurrentVersionCall(docs, vs, documentId, content) ==
  LET i == FindDocument(docs, documentId)
      sorted == sortedVersions(Filter(vs, documentId))
  IN IF i = 0 THEN Threw("Document not found", docs, vs)
     ELSE IF sorted = <<>> THEN Threw("Version not found", docs, vs)
     ELSE LET h == FindVersion(vs, documentId, sorted[1].id)
              v == updatedHead(sorted, content)
          IN Returned(v, updateDocuments(docs, documentId, content),
                      [vs EXCEPT ![h] = v])

(* ---- the editor (components/JsonEditor.tsx) ---- *)

Null == "null"
ParseError == "JSON.parse error message"
SaveFailed == "Failed to save version"
CreateFailed == "Failed to create document"
InvalidFile == "Invalid JSON file"

\* no editor is mounted
NoEditor == [mounted |-> FALSE]
NoRace == [st |-> "none"]

\* The state of a mounted JsonEditor. Beside the useState and useRef values:
\* timerContent is the `content` the setInterval callback's saveVersion closed
\* over when the timer effect last ran, saveDisabled is the Save button's
\* `disabled` attribute as computed by the last render.
mount(documentId, initialContent) ==
  [mounted |-> TRUE,
   content |-> IF CanParse(initialContent)
               THEN JSON_stringify(JSON_parse(initialContent))
               ELSE initialContent,
   error |-> Null,
   isValid |-> TRUE,
   isSaving |-> FALSE,
   saveSuccess |-> FALSE,
   isCreatingDocument |-> (documentId = Undefined),
   currentDocumentId |-> documentId,
   lastSavedContentRef |-> initialContent,
   hasChangesRef |-> FALSE,
   timerContent |-> initialContent,
   saveDisabled |-> TRUE]

\* initializeDocument: without a documentId the mount calls createDocument
mountRequests(documentId, initialContent) ==
  IF documentId = Undefined
  THEN << [op |-> "createDocument", content |-> initialContent] >>
  ELSE <<>>

\* a render after the state went from `old` to `new`: React renders again only
\* when a useState value changed; the render recomputes the button's disabled
\* attribute; the timer effect runs again when currentDocumentId or isValid
\* changed and then closes over the content of that render
rendered(old, new) ==
  LET stateChanged ==
        <<new.content, new.error, new.isValid, new.isSaving, new.saveSuccess,
          new.isCreatingDocument, new.currentDocumentId>>
        # <<old.content, old.error, old.isValid, old.isSaving, old.saveSuccess,
            old.isCreatingDocument, old.currentDocumentId>>
      depsChanged ==
        <<new.currentDocumentId, new.isValid>>
        # <<old.currentDocumentId, old.isValid>>
  IN [new EXCEPT
        !.saveDisabled = IF stateChanged
                         THEN ~new.isValid \/ new.isSaving \/ ~new.hasChangesRef
                         ELSE old.saveDisabled,
        !.timerContent = IF depsChanged THEN new.content ELSE old.timerContent]

handleEditorChange(ed, value) ==
  rendered(ed, [ed EXCEPT !.content = value,
                          !.error = IF CanParse(value) THEN Null ELSE ParseError,
                          !.isValid = CanParse(value),
                          !.hasChangesRef = (value # ed.lastSavedContentRef)])

formatJson(ed) ==
  IF CanParse(ed.content)
  THEN rendered(ed, [ed EXCEPT !.content = JSON_stringify(JSON_parse(ed.content))])
  ELSE ed

\* saveVersion(isAutoSave) of a render whose `content` was `content`: the
\* editor afterwards and the requests it has sent
saveVersion(ed, content, isAutoSave) ==
  IF ed.currentDocumentId = Undefined \/ ~ed.isValid
  THEN [editor |-> ed, sent |-> <<>>]
  ELSE [editor |-> rendered(ed, [ed EXCEPT !.isSaving = TRUE,
                                           !.saveSuccess = FALSE]),
        sent |-> << [op |-> "createVersion",
                     documentId |-> ed.currentDocumentId,
                     content |-> content,
                     isAutoSave |-> isAutoSave] >>]

handleSave(ed) == saveVersion(ed, ed.content, FALSE)

\* the setInterval callback
autoSaveTick(ed) ==
  IF ed.currentDocumentId # Undefined /\ ed.hasChangesRef /\ ed.isValid
  THEN saveVersion(ed, ed.timerContent, TRUE)
  ELSE [editor |-> ed, sent |-> <<>>]

\* a saveVersion that resets hasChangesRef in its finally block
saveSettled_ClearsDirty(ed, request, r) ==
  IF r.ok
  THEN rendered(ed, [ed EXCEPT !.lastSavedContentRef = request.content,
                               !.hasChangesRef = FALSE,
                               !.error = Null,
                               !.saveSuccess = IF request.isAutoSave THEN @ ELSE TRUE,
                               !.isSaving = FALSE])
  ELSE rendered(ed, [ed EXCEPT !.error = SaveFailed,
                               !.hasChangesRef = FALSE,
                               !.isSaving = FALSE])

\* a saveVersion that resets isSaving at the end of its try block, not in a
\* finally block
saveSettled_NoFinally(ed, request, r) ==
  IF r.ok
  THEN rendered(ed, [ed EXCEPT !.lastSavedContentRef = request.content,
                               !.hasChangesRef = FALSE,
                               !.error = Null,
                               !.saveSuccess = IF request.isAutoSave THEN @ ELSE TRUE,
                               !.isSaving = FALSE])
  ELSE rendered(ed, [ed EXCEPT !.error = SaveFailed])

\* saveVersion after `await createVersion(...)`: r is what the call left
saveSettled(ed, request, r) ==
  IF r.ok
  THEN rendered(ed, [ed EXCEPT !.lastSavedContentRef = request.content,
                               !.hasChangesRef = FALSE,
                               !.error = Null,
                               !.saveSuccess = IF request.isAutoSave THEN @ ELSE TRUE,
                               !.isSaving = FALSE])
  ELSE rendered(ed, [ed EXCEPT !.error = SaveFailed, !.isSaving = FALSE])

\* initializeDocument after `await createDocument(...)`
documentSettled(ed, r) ==
  IF r.ok
  THEN rendered(ed, [ed EXCEPT !.currentDocumentId = r.result.id,
                               !.error = Null,
                               !.isCreatingDocument = FALSE])
  ELSE rendered(ed, [ed EXCEPT !.error = CreateFailed,
                               !.isCreatingDocument = FALSE])

\* reader.onload of handleFileUpload, for a file with the given text
handleFileUpload(ed, text) ==
  IF CanParse(text)
  THEN rendered(ed, [ed EXCEPT !.content = JSON_stringify(JSON_parse(text)),
                               !.isValid = TRUE,
                               !.error = Null,
                               !.hasChangesRef = TRUE])
  ELSE rendered(ed, [ed EXCEPT !.error = InvalidFile, !.isValid = FALSE])

\* the setTimeout of a successful manual save, 3 seconds later
saveSuccessTimeout(ed) == rendered(ed, [ed EXCEPT !.saveSuccess = FALSE])

(* ---- the diff viewer (DiffViewer in components/JsonEditor.tsx) ---- *)

MergeFailed == "Failed to merge versions"
LoadFailed == "Failed to load current document"

\* no diff viewer is shown
NoViewer == [mounted |-> FALSE]

\* a DiffViewer showing `version`, once its first fetchCurrentContent has
\* stored the content of the head version
mountViewer(version, content) ==
  [mounted |-> TRUE,
   version |-> version,
   currentContent |-> content,
   loading |-> FALSE,
   error |-> Null,
   merging |-> FALSE,
   mergeSuccess |-> FALSE]

\* handleMergeVersions up to its first await
handleMergeVersions(vw) ==
  [viewer |-> [vw EXCEPT !.merging = TRUE, !.mergeSuccess = FALSE],
   sent |-> << [op |-> "mergeVersions",
                documentId |-> vw.version.documentId,
                versionId |-> vw.version.id] >>]

\* handleMergeVersions after `await mergeVersions(...)`, up to its second await
mergeSettled(vw, r) ==
  IF r.ok
  THEN [viewer |-> vw,
        sent |-> << [op |-> "getDocument",
                     documentId |-> vw.version.documentId] >>]
  ELSE [viewer |-> [vw EXCEPT !.error = MergeFailed, !.merging = FALSE],
        sent |-> <<>>]

\* handleMergeVersions after `await getDocument(...)`: the versionMerged event
\* it dispatches makes the viewer's own listener start fetchCurrentContent
documentFetched(vw, r) ==
  IF r.ok
  THEN [viewer |-> [vw EXCEPT !.currentContent = r.result.content,
                              !.error = Null,
                              !.mergeSuccess = TRUE,
                              !.loading = TRUE,
                              !.merging = FALSE],
        sent |-> << [op |-> "getVersions",
                     documentId |-> vw.version.documentId] >>]
  ELSE [viewer |-> [vw EXCEPT !.error = MergeFailed, !.merging = FALSE],
        sent |-> <<>>]

\* fetchCurrentContent after `await getVersions(...)`: [0] of an empty array
\* is undefined and reading its content throws
versionsFetched(vw, r) ==
  LET sorted == sortedVersions(r.result)
  IN IF r.ok /\ sorted # <<>>
     THEN [viewer |-> [vw EXCEPT !.currentContent = sorted[1].content,
                                 !.error = Null,
                                 !.loading = FALSE],
           sent |-> <<>>]
     ELSE [viewer |-> [vw EXCEPT !.error = LoadFailed, !.loading = FALSE],
           sent |-> <<>>]

\* the setTimeout of a successful merge, 3 seconds later
mergeSuccessTimeout(vw) == [vw EXCEPT !.mergeSuccess = FALSE]

(* ---- calls on the store ---- *)

\* the ids a caller may pass: every id in use and one that is not
DocumentIds == {documents[i].id : i \in DOMAIN documents} \cup {UnknownId}
VersionIds == {versions[i].id : i \in DOMAIN versions} \cup {UnknownId}
Contents == PrettyTexts \cup {BadText}

\* the record of the last call that changed a collection: the call, its
\* arguments, what it returned, and the collections and clock it found
Done(op, args, r) ==
  [op |-> op, args |-> args, result |-> r.result,
   documents |-> documents, versions |-> versions, now |-> now]

\* a call takes effect: the collections become what it leaves behind
Apply(op, args, r) ==
  /\ Len(r.documents) <= MaxDocuments
  /\ Len(r.versions) <= MaxVersions
  /\ documents' = r.documents
  /\ versions' = r.versions
  /\ last' = IF r.ok /\ <<r.documents, r.versions>> # <<documents, versions>>
             THEN Done(op, args, r) ELSE last
  /\ UNCHANGED <<now, editorVars, viewerVars>>

createDocument(content) ==
  Apply("createDocument", <<content>>,
        createDocumentCall(documents, versions, content, now))

getDocument(id) ==
  Apply("getDocument", <<id>>, getDocumentCall(documents, versions, id))

createVersion(documentId, content, isAutoSave) ==
  Apply("createVersion", <<documentId, content, isAutoSave>>,
        createVersionCall(documents, versions, documentId, content,
                          isAutoSave, now))

getVersions(documentId) ==
  Apply("getVersions", <<documentId>>,
        getVersionsCall(documents, versions, documentId))

mergeVersions(documentId, versionId) ==
  Apply("mergeVersions", <<documentId, versionId>>,
        mergeVersionsCall(documents, versions, documentId, versionId, now))

getVersion(documentId, versionId) ==
  Apply("getVersion", <<documentId, versionId>>,
        getVersionCall(documents, versions, documentId, versionId))

\* the wall clock moves on by a millisecond
Tick ==
  /\ now < OneDay + MaxTime
  /\ now' = now + 1
  /\ UNCHANGED <<documents, versions, last, editorVars, viewerVars>>

Init ==
  /\ initializeExamples
  /\ now = OneDay
  /\ last = [op |-> "none"]
  /\ editor = NoEditor
  /\ pending = <<>>
  /\ race = NoRace
  /\ viewer = NoViewer
  /\ viewerPending = <<>>

Next ==
  \/ \E content \in Contents : createDocument(content)
  \/ \E id \in DocumentIds : getDocument(id)
  \/ \E documentId \in DocumentIds, content \in Contents,
        isAutoSave \in BOOLEAN : createVersion(documentId, content, isAutoSave)
  \/ \E documentId \in DocumentIds : getVersions(documentId)
  \/ \E documentId \in DocumentIds, versionId \in VersionIds :
        mergeVersions(documentId, versionId)
  \/ \E documentId \in DocumentIds, versionId \in VersionIds :
        getVersion(documentId, versionId)
  \/ Tick

Spec == Init /\ [][Next]_vars

(* ---- the store with every call on record ---- *)

\* the record of the last call, whatever it did: the call, its arguments,
\* whether it returned, what it returned or threw, and the collections and
\* clock it found
Answered(op, args, r) ==
  [op |-> op, args |-> args, ok |-> r.ok, answer |-> r.result,
   documents |-> documents, versions |-> versions, now |-> now]

Answer(op, args, r) ==
  /\ Len(r.documents) <= MaxDocuments
  /\ Len(r.versions) <= MaxVersions
  /\ documents' = r.documents
  /\ versions' = r.versions
  /\ last' = Answered(op, args, r)
  /\ UNCHANGED <<now, editorVars, viewerVars>>

\* the contents passed in recorded calls: one that parses and one that does not
CallContents == {version1Content, BadText}

CallNext ==
  \/ \E content \in CallContents :
        Answer("createDocument", <<content>>,
               createDocumentCall(documents, versions, content, now))
  \/ \E id \in DocumentIds :
        Answer("getDocument", <<id>>, getDocumentCall(documents, versions, id))
  \/ \E documentId \in DocumentIds, content \in CallContents, isAutoSave \in BOOLEAN :
        Answer("createVersion", <<documentId, content, isAutoSave>>,
               createVersionCall(documents, versions, documentId, content,
                                 isAutoSave, now))
  \/ \E documentId \in DocumentIds :
        Answer("getVersions", <<documentId>>,
               getVersionsCall(documents, versions, documentId))
  \/ \E documentId \in DocumentIds, versionId \in VersionIds :
        Answer("mergeVersions", <<documentId, versionId>>,
               mergeVersionsCall(documents, versions, documentId, versionId, now))
  \/ \E documentId \in DocumentIds, versionId \in VersionIds :
        Answer("getVersion", <<documentId, versionId>>,
               getVersionCall(documents, versions, documentId, versionId))
  \/ Tick

CallSpec == Init /\ [][CallNext]_vars

(* ---- the store with ids as Math.random gives them ---- *)

MaxRandomIds == 2

\* the strings Math.random().toString(36).substring(2, 15) can give: nothing
\* keeps a call from returning a string an earlier call returned
RandomIds == {IdNames[i] : i \in 1..MaxRandomIds}

WithId(s, id) == [s EXCEPT ![Len(s)] = [@ EXCEPT !.id = id]]

\* what a call leaves when the generateId() in it returned id
documentIdDrawn(r, id) ==
  IF r.ok
  THEN [r EXCEPT !.documents = WithId(@, id), !.result = [@ EXCEPT !.id = id]]
  ELSE r

versionIdDrawn(r, id) ==
  IF r.ok
  THEN [r EXCEPT !.versions = WithId(@, id), !.result = [@ EXCEPT !.id = id]]
  ELSE r

RandomNext ==
  \/ \E content \in CallContents, id \in RandomIds :
        Answer("createDocument", <<content>>,
               documentIdDrawn(createDocumentCall(documents, versions,
                                                  content, now), id))
  \/ \E documentId \in DocumentIds, content \in CallContents,
         isAutoSave \in BOOLEAN, id \in RandomIds :
        Answer("createVersion", <<documentId, content, isAutoSave>>,
               versionIdDrawn(createVersionCall(documents, versions, documentId,
                                                content, isAutoSave, now), id))
  \/ \E documentId \in DocumentIds, versionId \in VersionIds, id \in RandomIds :
        Answer("mergeVersions", <<documentId, versionId>>,
               versionIdDrawn(mergeVersionsCall(documents, versions, documentId,
                                                versionId, now), id))
  \/ \E documentId \in DocumentIds, versionId \in VersionIds :
        Answer("getVersion", <<documentId, versionId>>,
               getVersionCall(documents, versions, documentId, versionId))

RandomSpec == Init /\ [][RandomNext]_vars

(* ---- the store with the update of the current version ---- *)

HeadNext ==
  \/ \E documentId \in DocumentIds, content \in CallContents, isAutoSave \in BOOLEAN :
        Answer("createVersion", <<documentId, content, isAutoSave>>,
               createVersionCall(documents, versions, documentId, content,
                                 isAutoSave, now))
  \/ \E documentId \in DocumentIds, versionId \in VersionIds :
        Answer("mergeVersions", <<documentId, versionId>>,
               mergeVersionsCall(documents, versions, documentId, versionId, now))
  \/ \E documentId \in DocumentIds, content \in CallContents :
        Answer("updateCurrentVersion", <<documentId, content>>,
               updateCurrentVersionCall(documents, versions, documentId, content))
  \/ Tick

\* the store after the examples were loaded and a second document was created
HeadInit ==
  /\ documents = createDocumentCall(exampleDocuments, exampleVersions,
                                    version1Content, OneDay).documents
  /\ versions = exampleVersions
  /\ now = OneDay
  /\ last = [op |-> "none"]
  /\ editor = NoEditor
  /\ pending = <<>>
  /\ race = NoRace
  /\ viewer = NoViewer
  /\ viewerPending = <<>>

HeadSpec == HeadInit /\ [][HeadNext]_vars

(* ---- the editor over the store ---- *)

InitialContent == version1Content

\* what Home mounts the editor with: no id (new document), the id of a stored
\* document with its HEAD content, or an id whose getDocument failed
Mounts ==
  { [documentId |-> Undefined, initialContent |-> InitialContent],
    [documentId |-> ExampleDocId, initialContent |-> version2Content],
    [documentId |-> UnknownId, initialContent |-> InitialContent] }

Latest(vs) == vs[Len(vs)]

\* what the user types into the editor, and the files the user uploads:
\* the JSON of version1Content, the same JSON on one line, and text that does
\* not parse
CompactContent == [v |-> 1, p |-> FALSE]
Typed == {version1Content, CompactContent, BadText}
Files == {CompactContent, BadText}

Remove(s, i) == [j \in 1..(Len(s) - 1) |-> IF j < i THEN s[j] ELSE s[j + 1]]

IsSave(request) == request.op = "createVersion"
AutoSavePending == \E i \in DOMAIN pending : IsSave(pending[i]) /\ pending[i].isAutoSave
ManualSavePending == \E i \in DOMAIN pending : IsSave(pending[i]) /\ ~pending[i].isAutoSave

Event(op) == [op |-> op]

\* the state of the program, as the history variable keeps it
Before ==
  [editor |-> editor, pending |-> pending,
   documents |-> documents, versions |-> versions]

EditorChange(value) ==
  /\ editor.mounted
  /\ value # editor.content
  /\ editor' = handleEditorChange(editor, value)
  /\ last' = Event("handleEditorChange")
  /\ UNCHANGED <<documents, versions, now, pending, race, viewerVars>>

FormatJson ==
  /\ editor.mounted
  /\ editor.isValid
  /\ editor' = formatJson(editor)
  /\ last' = Event("formatJson")
  /\ UNCHANGED <<documents, versions, now, pending, race, viewerVars>>

FileUpload(text) ==
  /\ editor.mounted
  /\ editor' = handleFileUpload(editor, text)
  /\ last' = Event("handleFileUpload")
  /\ UNCHANGED <<documents, versions, now, pending, race, viewerVars>>

SaveSuccessTimeout ==
  /\ editor.mounted
  /\ editor.saveSuccess
  /\ editor' = saveSuccessTimeout(editor)
  /\ last' = Event("saveSuccessTimeout")
  /\ UNCHANGED <<documents, versions, now, pending, race, viewerVars>>

\* a click on Save Version, possible while the button is not disabled
HandleSave ==
  /\ editor.mounted
  /\ ~editor.saveDisabled
  /\ LET r == handleSave(editor) IN
       /\ Len(pending) + Len(r.sent) <= MaxPending
       /\ editor' = r.editor
       /\ pending' = pending \o r.sent
       /\ race' = IF race.st = "open" /\ r.sent # <<>> THEN [st |-> "void"] ELSE race
       /\ last' = [op |-> "handleSave", before |-> Before]
  /\ UNCHANGED <<documents, versions, now, viewerVars>>

\* the interval timer fires. race follows the first pair of ticks of which the
\* second starts its save while the save of the first is still in flight and
\* no manual save is
AutoSaveTick ==
  /\ editor.mounted
  /\ LET r == autoSaveTick(editor)
         starts == r.sent # <<>>
     IN
       /\ Len(pending) + Len(r.sent) <= MaxPending
       /\ editor' = r.editor
       /\ pending' = pending \o r.sent
       /\ race' = IF ~starts THEN race
                  ELSE IF /\ race.st = "none"
                          /\ AutoSavePending
                          /\ ~ManualSavePending
                          /\ FindDocument(documents, editor.currentDocumentId) # 0
                       THEN [st |-> "open", base |-> Len(versions),
                             later |-> editor.content]
                  ELSE IF race.st = "open" THEN [st |-> "void"]
                  ELSE race
       /\ last' = [op |-> "autoSaveTick", started |-> starts, before |-> Before]
  /\ UNCHANGED <<documents, versions, now, viewerVars>>

\* the request pending[i] is served and its `await` resumes. createVersion and
\* createDocument are async: between the call and the code after the await
\* other handlers of the editor run, and requests in flight together are
\* served in any order. The store executes the call when it is served.
Settle(i) ==
  /\ editor.mounted
  /\ i \in DOMAIN pending
  /\ LET request == pending[i]
         r == IF IsSave(request)
              THEN createVersionCall(documents, versions, request.documentId,
                                     request.content, request.isAutoSave, now)
              ELSE createDocumentCall(documents, versions, request.content, now)
     IN
       /\ Len(r.documents) <= MaxDocuments
       /\ Len(r.versions) <= MaxVersions
       /\ documents' = r.documents
       /\ versions' = r.versions
       /\ editor' = IF IsSave(request) THEN saveSettled(editor, request, r)
                                       ELSE documentSettled(editor, r)
       /\ pending' = Remove(pending, i)
       /\ race' = IF race.st = "open" /\ Len(pending) = 1
                  THEN [st |-> "closed",
                        written |-> Len(r.versions) - race.base,
                        content |-> Latest(r.versions).content,
                        later |-> race.later]
                  ELSE race
       /\ last' = [op |-> "settled", request |-> request, ok |-> r.ok,
                   before |-> Before]
  /\ UNCHANGED <<now, viewerVars>>

EditorInit ==
  /\ initializeExamples
  /\ now = OneDay
  /\ \E m \in Mounts :
       /\ editor = mount(m.documentId, m.initialContent)
       /\ pending = mountRequests(m.documentId, m.initialContent)
  /\ race = NoRace
  /\ viewer = NoViewer
  /\ viewerPending = <<>>
  /\ last = Event("mount")

EditorNext ==
  \/ \E value \in Typed : EditorChange(value)
  \/ FormatJson
  \/ \E text \in Files : FileUpload(text)
  \/ SaveSuccessTimeout
  \/ HandleSave
  \/ AutoSaveTick
  \/ \E i \in 1..MaxPending : Settle(i)
  \/ Tick

EditorSpec == EditorInit /\ [][EditorNext]_vars

(* ---- the editor with every request served in the end ---- *)

\* the saves in flight
SavesPending == SelectSeq(pending, IsSave)

\* every save in flight can still store its version: saves start only while
\* the store has room for them
RoomToSettle == Len(versions) + Len(SavesPending) <= MaxVersions

\* the handlers that start a save, serve it or decide whether one starts
FairEditorNext ==
  \/ \E value \in Typed : EditorChange(value)
  \/ SaveSuccessTimeout
  \/ HandleSave /\ RoomToSettle'
  \/ AutoSaveTick /\ RoomToSettle'
  \/ \E i \in 1..MaxPending : Settle(i)

\* the promise of the oldest request in flight is settled in the end: the
\* timer behind it fires
FairEditorSpec ==
  EditorInit /\ [][FairEditorNext]_vars /\ WF_vars(Settle(1))

(* ---- editor and diff viewer side by side (Home) ---- *)

IsMerge(request) == request.op = "mergeVersions"

\* a click on Merge Version: the button is rendered only when the viewer shows
\* neither its loading nor its error screen, and is disabled while merging
HandleMerge ==
  /\ viewer.mounted
  /\ ~viewer.loading
  /\ viewer.error = Null
  /\ ~viewer.merging
  /\ LET r == handleMergeVersions(viewer) IN
       /\ viewer' = r.viewer
       /\ viewerPending' = viewerPending \o r.sent
  /\ last' = Event("handleMergeVersions")
  /\ UNCHANGED <<documents, versions, now, editorVars>>

\* the viewer's request viewerPending[i] is served and its `await` resumes
ViewerSettle(i) ==
  /\ viewer.mounted
  /\ i \in DOMAIN viewerPending
  /\ LET request == viewerPending[i]
         r == IF IsMerge(request)
              THEN mergeVersionsCall(documents, versions, request.documentId,
                                     request.versionId, now)
              ELSE IF request.op = "getDocument"
              THEN getDocumentCall(documents, versions, request.documentId)
              ELSE getVersionsCall(documents, versions, request.documentId)
         s == IF IsMerge(request) THEN mergeSettled(viewer, r)
              ELSE IF request.op = "getDocument" THEN documentFetched(viewer, r)
              ELSE versionsFetched(viewer, r)
     IN
       /\ Len(r.versions) <= MaxVersions
       /\ documents' = r.documents
       /\ versions' = r.versions
       /\ viewer' = s.viewer
       /\ viewerPending' = Remove(viewerPending, i) \o s.sent
       /\ last' = [op |-> "viewerSettled", request |-> request, ok |-> r.ok]
  /\ UNCHANGED <<now, editorVars>>

MergeSuccessTimeout ==
  /\ viewer.mounted
  /\ viewer.mergeSuccess
  /\ viewer' = mergeSuccessTimeout(viewer)
  /\ last' = Event("mergeSuccessTimeout")
  /\ UNCHANGED <<documents, versions, now, editorVars, viewerPending>>

\* Home with the example document open in the editor and its older version
\* selected in the diff viewer
HomeInit ==
  /\ initializeExamples
  /\ now = OneDay
  /\ editor = mount(ExampleDocId, version2Content)
  /\ pending = mountRequests(ExampleDocId, version2Content)
  /\ race = NoRace
  /\ viewer = mountViewer(versions[1],
                          headVersion(versions, ExampleDocId)[1].content)
  /\ viewerPending = <<>>
  /\ last = Event("mount")

HomeNext ==
  \/ \E value \in Typed : EditorChange(value)
  \/ HandleSave
  \/ AutoSaveTick
  \/ \E i \in 1..MaxPending : Settle(i)
  \/ HandleMerge
  \/ \E i \in 1..MaxPending : ViewerSettle(i)
  \/ MergeSuccessTimeout
  \/ Tick

HomeSpec == HomeInit /\ [][HomeNext]_vars

(* ---- JSON values as trees and the identity hash of list elements ---- *)

\* a JSON value: null, a boolean, a number, a string, a list of values, or a
\* map from keys to values
TNull == [t |-> "null"]
TBool(b) == [t |-> "bool", b |-> b]
TNum(n) == [t |-> "num", n |-> n]
TStr(str) == [t |-> "str", s |-> str]
TList(elements) == [t |-> "list", e |-> elements]
TMap(entries) == [t |-> "map", m |-> entries]

Keys(v) == IF v.t = "map" THEN DOMAIN v.m ELSE {}

\* the value of a JavaScript expression taken as a condition
Truthy(v) ==
  CASE v.t = "null" -> FALSE
    [] v.t = "bool" -> v.b
    [] v.t = "num" -> v.n # 0
    [] v.t = "str" -> v.s # ""
    [] OTHER -> TRUE

\* JSON.stringify(value): one string for each value
stringify(v) == [json |-> v]

\* objectHash: (obj) => obj.id || JSON.stringify(obj)
objectHash(obj) ==
  IF "id" \in Keys(obj) /\ Truthy(obj.m["id"]) THEN obj.m["id"]
  ELSE stringify(obj)

\* the scalars in play: the values JavaScript takes as false and two it
\* takes as true
Scalars == {TNull, TBool(FALSE), TNum(0), TStr(""), TNum(1), TStr("a")}

\* the maps in play as list elements: with and without the key "id", with
\* and without a second key
MapsWithId ==
  {TMap([k \in {"id"} |-> id]) : id \in Scalars}
    \cup {TMap([k \in {"id", "x"} |-> IF k = "id" THEN id ELSE TNum(0)]) :
            id \in Scalars}
MapsWithoutId == {TMap([k \in {"x"} |-> x]) : x \in {TNum(0), TNum(1)}}
                   \cup {TMap([k \in {} |-> TNull])}

(* ---- the structural diff of two trees ---- *)

\* the keys of maps, in the order in which a diff visits them
KeyOrder == <<"id", "x">>

\* a path is a sequence of steps from the root: into a map by a key, into a
\* list by an index
KeyStep(k) == [k |-> k]
IndexStep(i) == [i |-> i]

\* the operations of a patch
Add(path, value) == [op |-> "add", path |-> path, value |-> value]
RemoveOp(path, old) == [op |-> "remove", path |-> path, old |-> old]
Replace(path, old, new) ==
  [op |-> "replace", path |-> path, old |-> old, new |-> new]
Move(from, to) == [op |-> "move", path |-> from, to |-> to]

RECURSIVE Flatten(_)
Flatten(seqs) == IF seqs = <<>> THEN <<>> ELSE Head(seqs) \o Flatten(Tail(seqs))

Min(S) == CHOOSE x \in S : \A y \in S : x <= y
InsertAt(s, i, x) == SubSeq(s, 1, i - 1) \o <<x>> \o SubSeq(s, i, Len(s))
RemoveAt(s, i) == SubSeq(s, 1, i - 1) \o SubSeq(s, i + 1, Len(s))
PositionOf(s, x) == CHOOSE p \in DOMAIN s : s[p] = x

\* the longest common subsequence of the hashes ha[i..] and hb[j..], as pairs
\* <<old index, new index>>
RECURSIVE LCS(_, _, _, _)
LCS(ha, hb, i, j) ==
  IF i > Len(ha) \/ j > Len(hb) THEN <<>>
  ELSE IF ha[i] = hb[j] THEN << <<i, j>> >> \o LCS(ha, hb, i + 1, j + 1)
  ELSE LET skipOld == LCS(ha, hb, i + 1, j)
           skipNew == LCS(ha, hb, i, j + 1)
       IN IF Len(skipOld) >= Len(skipNew) THEN skipOld ELSE skipNew

\* the old index matched with each new index (0: none): first the pairs of
\* the common subsequence, then, for the new elements left, the first old
\* element left with the same hash, in order of appearance
\* an alignment that stops at the common subsequence
MatchLeft_None(ha, hb, m, j) == m

RECURSIVE MatchLeft(_, _, _, _)
MatchLeft(ha, hb, m, j) ==
  IF j > Len(hb) THEN m
  ELSE IF m[j] # 0 THEN MatchLeft(ha, hb, m, j + 1)
  ELSE LET used == {m[k] : k \in DOMAIN m}
           free == {i \in DOMAIN ha : ha[i] = hb[j] /\ i \notin used}
       IN IF free = {} THEN MatchLeft(ha, hb, m, j + 1)
          ELSE MatchLeft(ha, hb, [m EXCEPT ![j] = Min(free)], j + 1)

Aligned(lcs, n) ==
  [j \in 1..n |->
     IF \E p \in DOMAIN lcs : lcs[p][2] = j
     THEN lcs[CHOOSE p \in DOMAIN lcs : lcs[p][2] = j][1]
     ELSE 0]

NewIndexOf(m, i) == CHOOSE j \in DOMAIN m : m[j] = i

\* the moves that bring the matched elements from the old order into the new
\* one: cur is the list of old indices as it stands, settled the elements
\* already in their final relative order; only elements outside the common
\* subsequence are moved
RECURSIVE MoveOps(_, _, _, _, _)
MoveOps(path, m, cur, settled, j) ==
  IF j > Len(m) THEN <<>>
  ELSE IF m[j] = 0 \/ m[j] \in settled
       THEN MoveOps(path, m, cur, settled, j + 1)
  ELSE LET i == m[j]
           from == PositionOf(cur, i)
           rest == RemoveAt(cur, from)
           after == {p \in DOMAIN rest :
                       rest[p] \in settled /\ NewIndexOf(m, rest[p]) > j}
           to == IF after = {} THEN Len(rest) + 1 ELSE Min(after)
       IN (IF from = to THEN <<>>
           ELSE << Move(Append(path, IndexStep(from)),
                        Append(path, IndexStep(to))) >>)
          \o MoveOps(path, m, InsertAt(rest, to, i), settled \cup {i}, j + 1)

\* removals from the first to the last: each index is that of the old list
RemoveOps_Ascending(path, a, matched) ==
  Flatten([i \in DOMAIN a.e |->
             IF i \in matched THEN <<>>
             ELSE << RemoveOp(Append(path, IndexStep(i)), a.e[i]) >>])

\* unmatched old elements are removed, from the last to the first, so that
\* each index is still that of the old list when its removal is applied
RemoveOps(path, a, matched) ==
  LET na == Len(a.e)
  IN Flatten([p \in 1..na |->
                LET i == na + 1 - p
                IN IF i \in matched THEN <<>>
                   ELSE << RemoveOp(Append(path, IndexStep(i)), a.e[i]) >>])

RECURSIVE diff(_, _, _)

diffMap(path, a, b) ==
  LET n == Len(KeyOrder)
      kept == [p \in 1..n |->
                 LET k == KeyOrder[p]
                 IN IF k \notin Keys(b) THEN <<>>
                    ELSE IF k \notin Keys(a)
                         THEN << Add(Append(path, KeyStep(k)), b.m[k]) >>
                    ELSE diff(Append(path, KeyStep(k)), a.m[k], b.m[k])]
      gone == [p \in 1..n |->
                 LET k == KeyOrder[p]
                 IN IF k \in Keys(a) /\ k \notin Keys(b)
                    THEN << RemoveOp(Append(path, KeyStep(k)), a.m[k]) >>
                    ELSE <<>>]
  IN Flatten(kept) \o Flatten(gone)

diffList(path, a, b) ==
  LET ha == [i \in DOMAIN a.e |-> objectHash(a.e[i])]
      hb == [j \in DOMAIN b.e |-> objectHash(b.e[j])]
      lcs == LCS(ha, hb, 1, 1)
      m == MatchLeft(ha, hb, Aligned(lcs, Len(hb)), 1)
      matched == {m[j] : j \in DOMAIN m} \ {0}
      na == Len(a.e)
      cur == SelectSeq([i \in 1..na |-> i], LAMBDA i : i \in matched)
      settled == {lcs[p][1] : p \in DOMAIN lcs}
      \* unmatched new elements are added, from the first to the last
      adds == [j \in DOMAIN m |->
                 IF m[j] # 0 THEN <<>>
                 ELSE << Add(Append(path, IndexStep(j)), b.e[j]) >>]
      \* matched elements are compared in their new places
      inner == [j \in DOMAIN m |->
                  IF m[j] = 0 THEN <<>>
                  ELSE diff(Append(path, IndexStep(j)), a.e[m[j]], b.e[j])]
  IN RemoveOps(path, a, matched) \o MoveOps(path, m, cur, settled, 1)
       \o Flatten(adds) \o Flatten(inner)

diff(path, a, b) ==
  IF a.t = "map" /\ b.t = "map" THEN diffMap(path, a, b)
  ELSE IF a.t = "list" /\ b.t = "list" THEN diffList(path, a, b)
  ELSE IF a = b THEN <<>>
  ELSE << Replace(path, a, b) >>

(* ---- applying a patch to a tree ---- *)

PatchConflict == [t |-> "conflict"]

IsKeyStep(step) == "k" \in DOMAIN step

\* one operation at the last step of its path, on the map or list holding it
applyAt(tree, step, op) ==
  IF IsKeyStep(step)
  THEN LET k == step.k
       IN IF tree.t # "map" THEN PatchConflict
          ELSE IF op.op = "add"
               THEN IF k \in Keys(tree) THEN PatchConflict
                    ELSE TMap([x \in Keys(tree) \cup {k} |->
                                 IF x = k THEN op.value ELSE tree.m[x]])
          ELSE IF op.op = "remove"
               THEN IF k \in Keys(tree) /\ tree.m[k] = op.old
                    THEN TMap([x \in Keys(tree) \ {k} |-> tree.m[x]])
                    ELSE PatchConflict
          ELSE IF op.op = "replace"
               THEN IF k \in Keys(tree) /\ tree.m[k] = op.old
                    THEN TMap([tree.m EXCEPT ![k] = op.new])
                    ELSE PatchConflict
          ELSE PatchConflict
  ELSE LET i == step.i
           n == IF tree.t = "list" THEN Len(tree.e) ELSE 0
       IN IF tree.t # "list" THEN PatchConflict
          ELSE IF op.op = "add"
               THEN IF i \in 1..(n + 1) THEN TList(InsertAt(tree.e, i, op.value))
                    ELSE PatchConflict
          ELSE IF op.op = "remove"
               THEN IF i \in 1..n /\ tree.e[i] = op.old
                    THEN TList(RemoveAt(tree.e, i))
                    ELSE PatchConflict
          ELSE IF op.op = "replace"
               THEN IF i \in 1..n /\ tree.e[i] = op.old
                    THEN TList([tree.e EXCEPT ![i] = op.new])
                    ELSE PatchConflict
          ELSE LET to == op.to[Len(op.to)].i
               IN IF i \in 1..n /\ to \in 1..n
                  THEN TList(InsertAt(RemoveAt(tree.e, i), to, tree.e[i]))
                  ELSE PatchConflict

\* one operation, found by walking the rest of its path down from tree
RECURSIVE applyOp(_, _, _)
applyOp(tree, path, op) ==
  IF tree = PatchConflict THEN PatchConflict
  ELSE IF path = <<>>
       THEN IF op.op = "replace" /\ tree = op.old THEN op.new
            ELSE PatchConflict
  ELSE IF Len(path) = 1 THEN applyAt(tree, Head(path), op)
  ELSE LET step == Head(path)
       IN IF IsKeyStep(step)
          THEN IF tree.t = "map" /\ step.k \in Keys(tree)
               THEN LET sub == applyOp(tree.m[step.k], Tail(path), op)
                    IN IF sub = PatchConflict THEN PatchConflict
                       ELSE TMap([tree.m EXCEPT ![step.k] = sub])
               ELSE PatchConflict
          ELSE IF tree.t = "list" /\ step.i \in DOMAIN tree.e
               THEN LET sub == applyOp(tree.e[step.i], Tail(path), op)
                    IN IF sub = PatchConflict THEN PatchConflict
                       ELSE TList([tree.e EXCEPT ![step.i] = sub])
               ELSE PatchConflict

\* the operations of the patch, one after the other
RECURSIVE apply(_, _)
apply(tree, patch) ==
  IF patch = <<>> THEN tree
  ELSE apply(applyOp(tree, Head(patch).path, Head(patch)), Tail(patch))

(* ---- diffing bounded trees ---- *)

MaxListLen == 3

IdMap(id, x) == TMap([k \in {"id", "x"} |-> IF k = "id" THEN id ELSE x])

\* list elements: scalars, and maps that share or do not share an id
ListElements ==
  {TNum(0), TNum(1),
   IdMap(TNum(1), TNum(0)), IdMap(TNum(1), TNum(1)),
   IdMap(TStr("a"), TNum(0)), IdMap(TNum(0), TNum(0))}

Lists ==
  {TList(e) : e \in UNION {[1..n -> ListElements] : n \in 0..MaxListLen}}

\* maps that hold a list, with or without a second key
ShortLists == {l \in Lists : Len(l.e) <= 1}
MapsOfLists ==
  {TMap([k \in {"x"} |-> l]) : l \in ShortLists}
    \cup {IdMap(TNum(1), l) : l \in ShortLists}

Trees ==
  Lists \cup ListElements \cup MapsOfLists \cup MapsWithId
    \cup MapsWithoutId \cup Scalars

\* the values that reach objectHash: null has no property to read
HashInputs == Trees \ {TNull}

\* the two trees of a comparison are chosen at the start
DiffInit ==
  /\ initializeExamples
  /\ now = OneDay
  /\ \E a, b \in Trees : last = [op |-> "input", a |-> a, b |-> b]
  /\ editor = NoEditor
  /\ pending = <<>>
  /\ race = NoRace
  /\ viewer = NoViewer
  /\ viewerPending = <<>>

DiffTrees ==
  /\ last.op = "input"
  /\ LET patch == diff(<<>>, last.a, last.b)
     IN last' = [op |-> "diff", a |-> last.a, b |-> last.b, patch |-> patch,
                 applied |-> apply(last.a, patch)]
  /\ UNCHANGED <<documents, versions, now, editorVars, viewerVars>>

HashElement ==
  /\ last.op = "input"
  /\ last.a \in HashInputs
  /\ last' = [op |-> "objectHash", obj |-> last.a,
              hash |-> objectHash(last.a)]
  /\ UNCHANGED <<documents, versions, now, editorVars, viewerVars>>

DiffNext ==
  \/ DiffTrees
  \/ HashElement

DiffSpec == DiffInit /\ [][DiffNext]_vars

(* ---- claims on the store ---- *)

IsPrefix(s, t) == Len(s) <= Len(t) /\ SubSeq(t, 1, Len(s)) = s
HeadId(vs, documentId) ==
  IF headVersion(vs, documentId) = <<>> THEN Undefined
  ELSE headVersion(vs, documentId)[1].id

\* C1: a successful createVersion(documentId, newContent, isAutoSave) appends
\* exactly one version with content newContent and the flag passed, whose
\* parentId is the id of the version that was HEAD before the call (none when
\* the document had no version), and HEAD of the document is then that version.
C1_CreateVersionAppendsChildOfHead ==
  last.op = "createVersion" =>
    LET documentId == last.args[1]
        v == Latest(versions)
    IN /\ versions = Append(last.versions, v)
       /\ v = last.result
       /\ v.documentId = documentId
       /\ v.content = last.args[2]
       /\ v.isAutoSave = last.args[3]
       /\ Get(v, "parentId") = HeadId(last.versions, documentId)
       /\ headVersion(versions, documentId) = <<v>>

\* C2: merge(documentId, v) on a version v of the document appends exactly one
\* version, which becomes HEAD, has v's content and mergedFrom = v.id; the
\* document's content becomes v's content; v and every other version that
\* existed stay as they were.
C2_MergeAppendsHeadCopy ==
  last.op = "mergeVersions" =>
    LET documentId == last.args[1]
        k == FindVersion(last.versions, documentId, last.args[2])
        source == last.versions[k]
        m == Latest(versions)
    IN /\ versions = Append(last.versions, m)
       /\ m.documentId = documentId
       /\ m.content = source.content
       /\ Get(m, "mergedFrom") = source.id
       /\ documents[FindDocument(documents, documentId)].content = source.content
       /\ headVersion(versions, documentId) = <<m>>

\* C3: on a document that only createVersion has written to, each successful
\* createVersion adds one record to the listing, and following parentId from
\* the last created version visits every record in reverse creation order and
\* ends at the first version, which has no parent.
OnlyCreated(listing) == \A i \in DOMAIN listing : "mergedFrom" \notin DOMAIN listing[i]
ParentChain(listing) ==
  \A i \in DOMAIN listing :
    Get(listing[i], "parentId") = IF i = 1 THEN Undefined ELSE listing[i - 1].id
C3_ListingIsParentChain ==
  last.op = "createVersion" =>
    LET documentId == last.args[1]
        listing == Filter(versions, documentId)
    IN /\ Len(listing) = Len(Filter(last.versions, documentId)) + 1
       /\ (documentId # ExampleDocId /\ OnlyCreated(listing)) => ParentChain(listing)

\* C4: the version that sorts first by createdAt descending is the version
\* appended last to the document, also when timestamps are equal.
C4_HeadIsLatestAppended ==
  \A i \in DOMAIN documents :
    LET listing == Filter(versions, documents[i].id)
    IN listing # <<>> => headVersion(versions, documents[i].id) = <<Latest(listing)>>

\* C5: no createDocument, createVersion, merge, getVersion or getVersions call
\* removes a version or changes a field of one: whatever the call and its
\* arguments, the versions it leaves behind start with the versions it found.
C5_VersionsOnlyAppended ==
  \A documentId \in DocumentIds, versionId \in VersionIds,
     content \in Contents, isAutoSave \in BOOLEAN :
    /\ IsPrefix(versions, createDocumentCall(documents, versions, content, now).versions)
    /\ IsPrefix(versions, createVersionCall(documents, versions, documentId,
                                            content, isAutoSave, now).versions)
    /\ IsPrefix(versions, mergeVersionsCall(documents, versions, documentId,
                                            versionId, now).versions)
    /\ IsPrefix(versions, getVersionCall(documents, versions, documentId,
                                         versionId).versions)
    /\ IsPrefix(versions, getVersionsCall(documents, versions, documentId).versions)
    /\ (last.op # "none" => IsPrefix(last.versions, versions))
\* a merge has been appended after a createVersion
C5_Witness ==
  /\ last.op = "mergeVersions"
  /\ \E i \in DOMAIN last.versions :
       i > 2 /\ "mergedFrom" \notin DOMAIN last.versions[i]

(* ---- claims on the editor's saves ---- *)

SavesInFlight == {i \in DOMAIN pending : IsSave(pending[i])}

\* C6: for one document at most one version-creating write is in flight at any
\* time; a save attempted while another is in flight waits for it instead of
\* running in parallel with it.
C6_OneSaveInFlight == Cardinality(SavesInFlight) <= 1

\* C7: when a second autosave tick starts its save while the save of the first
\* is still in flight, and no manual save comes between, the two together
\* write exactly one version, and it holds the content the editor had at the
\* second tick.
C7_ConcurrentTicksWriteOnce ==
  race.st = "closed" => race.written = 1 /\ race.content = race.later

\* C8: the dirty flag is true exactly when the editor's content differs from
\* the content of the last save that succeeded (the content the editor was
\* mounted with, before any save).
C8_DirtyIffContentDiffers ==
  editor.hasChangesRef = (editor.content # editor.lastSavedContentRef)

\* the editor started a save at the tick, or did nothing at all: on the flags
\* the callback reads (currentDocumentId, hasChangesRef, isValid) a tick sends
\* a request only when all three hold
TickFollowsFlags ==
  last.op = "autoSaveTick" =>
    LET b == last.before IN
      /\ last.started <=> pending # b.pending
      /\ last.started <=>
            /\ b.editor.currentDocumentId # Undefined
            /\ b.editor.hasChangesRef
            /\ b.editor.isValid
      /\ ~last.started => editor = b.editor
      /\ <<documents, versions>> = <<b.documents, b.versions>>

\* C9: an autosave tick starts a save only if, at the tick, the editor has a
\* document, its content is dirty (differs from the content last saved) and
\* is valid JSON; a tick at which the content is not dirty sends nothing,
\* leaves editor and store as they were, and sets no error.
C9_TickSavesOnlyDirtyValid ==
  last.op = "autoSaveTick" =>
    LET b == last.before
        dirty == b.editor.content # b.editor.lastSavedContentRef
    IN
      /\ last.started =>
            /\ b.editor.currentDocumentId # Undefined
            /\ dirty
            /\ CanParse(b.editor.content)
      /\ ~dirty =>
            /\ editor = b.editor
            /\ pending = b.pending
            /\ <<documents, versions>> = <<b.documents, b.versions>>

ManualSaveFailed ==
  /\ last.op = "settled"
  /\ IsSave(last.request)
  /\ ~last.request.isAutoSave
  /\ ~last.ok

\* C10: a manual save that fails leaves the editor's content, its last-saved
\* baseline and its dirty flag, the versions, the documents and the HEAD of
\* the document as they were; starting the save changes none of them either.
C10_FailedSaveChangesNothing ==
  /\ ManualSaveFailed =>
       LET b == last.before IN
         /\ editor.content = b.editor.content
         /\ editor.lastSavedContentRef = b.editor.lastSavedContentRef
         /\ editor.hasChangesRef = b.editor.hasChangesRef
         /\ versions = b.versions
         /\ documents = b.documents
         /\ headVersion(versions, last.request.documentId)
              = headVersion(b.versions, last.request.documentId)
  /\ last.op = "handleSave" =>
       LET b == last.before IN
         /\ editor.content = b.editor.content
         /\ editor.lastSavedContentRef = b.editor.lastSavedContentRef
         /\ editor.hasChangesRef = b.editor.hasChangesRef
         /\ <<documents, versions>> = <<b.documents, b.versions>>

\* a manual save of a dirty editor has just failed
C10_Witness ==
  /\ ManualSaveFailed
  /\ editor.error = SaveFailed
  /\ editor.hasChangesRef
  /\ editor.content # editor.lastSavedContentRef

(* ---- claims on saves and merges ---- *)

WritesInFlight(documentId) ==
  {i \in DOMAIN pending :
     IsSave(pending[i]) /\ pending[i].documentId = documentId}
MergesInFlight(documentId) ==
  {i \in DOMAIN viewerPending :
     IsMerge(viewerPending[i]) /\ viewerPending[i].documentId = documentId}

\* C11: a merge and a createVersion (of a manual save or of an autosave) are
\* never in flight at the same time against the same document.
C11_MergeNotDuringSave ==
  \A i \in DOMAIN documents :
    WritesInFlight(documents[i].id) = {} \/ MergesInFlight(documents[i].id) = {}

\* C12: between operations, a document that has a version has the content of
\* its HEAD version, and that version is stored.
C12_ContentIsHeadContent ==
  \A i \in DOMAIN documents :
    LET head == headVersion(versions, documents[i].id)
    IN head # <<>> =>
         /\ documents[i].content = head[1].content
         /\ \E k \in DOMAIN versions : versions[k] = head[1]

\* the same with the version appended last in place of the one that sorts
\* first
ContentIsLatestContent ==
  \A i \in DOMAIN documents :
    LET listing == Filter(versions, documents[i].id)
    IN listing # <<>> => documents[i].content = Latest(listing).content

\* the diff a version carries: jsondiffpatch gives undefined for equal values,
\* which reads like a version without the field
Patch(v) == IF "diff" \in DOMAIN v THEN v.diff ELSE NoDiff

VersionFields == {"documentId", "content", "createdAt", "isAutoSave"}

\* C13: the version a merge appends is the record createVersion(documentId,
\* source content, false) would have produced in the same state (its id
\* aside), with the mergedFrom tag added: parentId is the id of the HEAD
\* before the merge, isAutoSave is false and the diff is the one from the
\* previous HEAD's content to the source content.
C13_MergeIsTaggedCreateVersion ==
  last.op = "mergeVersions" =>
    LET documentId == last.args[1]
        k == FindVersion(last.versions, documentId, last.args[2])
        source == last.versions[k]
        head == headVersion(last.versions, documentId)[1]
        created == createVersionCall(last.documents, last.versions, documentId,
                                     source.content, FALSE, last.now).result
        m == Latest(versions)
    IN /\ \A f \in VersionFields : m[f] = created[f]
       /\ Patch(m) = Patch(created)
       /\ m.mergedFrom = source.id
       /\ ~m.isAutoSave
       /\ Get(m, "parentId") = head.id
       /\ Patch(m) = versionDiff(head.content, source.content)

\* what does hold of the merged version: the fields createVersion would have
\* written, the diff aside
MergeSharesFields ==
  last.op = "mergeVersions" =>
    LET documentId == last.args[1]
        k == FindVersion(last.versions, documentId, last.args[2])
        created == createVersionCall(last.documents, last.versions, documentId,
                                     last.versions[k].content, FALSE,
                                     last.now).result
        m == Latest(versions)
    IN /\ \A f \in VersionFields : m[f] = created[f]
       /\ m.mergedFrom = last.args[2]
       /\ DOMAIN m = VersionFields \cup {"id", "mergedFrom"}

\* C14: the first version of a document has no parent and no patch; every
\* later version carries the diff from the content of its parent, the version
\* stored before it, to its own content.
C14_FirstVersionHasNoPatch ==
  \A i \in DOMAIN documents :
    LET listing == Filter(versions, documents[i].id)
    IN \A k \in DOMAIN listing :
         IF k = 1
         THEN /\ Get(listing[k], "parentId") = Undefined
              /\ Patch(listing[k]) = NoDiff
         ELSE Patch(listing[k])
                = versionDiff(listing[k - 1].content, listing[k].content)

\* the diff createVersion stores is the one from the content the document had
\* to the content saved, also for the first version of a document
DiffIsFromDocumentContent ==
  last.op = "createVersion" =>
    LET i == FindDocument(last.documents, last.args[1])
    IN Patch(Latest(versions))
         = versionDiff(last.documents[i].content, last.args[2])

(* ---- claims on failing calls ---- *)

Unchanged == documents = last.documents /\ versions = last.versions
KnownDocument(id) == FindDocument(last.documents, id) # 0
\* the version id names a version of the store that the document does not own
ForeignVersion(documentId, versionId) ==
  \E k \in DOMAIN last.versions :
    last.versions[k].id = versionId /\ last.versions[k].documentId # documentId

\* C15: createVersion with a documentId that names no document fails with
\* "Document not found" and leaves documents, their contents and the versions
\* as they were.
C15_CreateVersionUnknownDocument ==
  (last.op = "createVersion" /\ ~KnownDocument(last.args[1])) =>
    /\ ~last.ok
    /\ last.answer = "Document not found"
    /\ Unchanged

\* createVersion has just failed on a store that holds created versions
C15_Witness ==
  /\ last.op = "createVersion"
  /\ ~KnownDocument(last.args[1])
  /\ ~last.ok
  /\ Len(versions) > 2

\* C16: merge with a documentId that names no document fails with "Document
\* not found" and no other error, whatever the version id, and changes nothing.
C16_MergeUnknownDocument ==
  (last.op = "mergeVersions" /\ ~KnownDocument(last.args[1])) =>
    /\ ~last.ok
    /\ last.answer = "Document not found"
    /\ Unchanged

\* what does hold of a merge on an unknown document: it fails and changes
\* nothing
MergeUnknownDocumentFails ==
  (last.op = "mergeVersions" /\ ~KnownDocument(last.args[1])) =>
    /\ ~last.ok
    /\ last.answer = "Version not found"
    /\ Unchanged

\* C17: merge on an existing document with a version id that is unknown or
\* names a version of another document fails with "Version not found" and
\* leaves the document's content, its HEAD and the versions as they were.
C17_MergeForeignVersion ==
  (/\ last.op = "mergeVersions"
   /\ KnownDocument(last.args[1])
   /\ FindVersion(last.versions, last.args[1], last.args[2]) = 0) =>
    /\ ~last.ok
    /\ last.answer = "Version not found"
    /\ Unchanged
    /\ headVersion(versions, last.args[1])
         = headVersion(last.versions, last.args[1])

\* a merge of a version of the example document into a created document has
\* just failed
C17_Witness ==
  /\ last.op = "mergeVersions"
  /\ KnownDocument(last.args[1])
  /\ ForeignVersion(last.args[1], last.args[2])
  /\ ~last.ok

\* C18: getVersion returns a version only if its documentId and id are the
\* ones passed; for a version id that does not exist or belongs to another
\* document it fails with "Version not found"; it never changes state.
C18_GetVersionOfDocumentOnly ==
  last.op = "getVersion" =>
    /\ Unchanged
    /\ last.ok =>
          /\ last.answer.documentId = last.args[1]
          /\ last.answer.id = last.args[2]
          /\ \E k \in DOMAIN versions : versions[k] = last.answer
    /\ FindVersion(last.versions, last.args[1], last.args[2]) = 0 =>
          ~last.ok /\ last.answer = "Version not found"

\* getVersion has just refused a version of the example document asked for
\* under a created document
C18_Witness ==
  /\ last.op = "getVersion"
  /\ KnownDocument(last.args[1])
  /\ ForeignVersion(last.args[1], last.args[2])
  /\ ~last.ok

(* ---- claims on creating a document ---- *)

\* C19: createDocument adds exactly one document, holding the content passed,
\* and leaves the versions as they were; listing the versions of the new
\* document right after gives the empty sequence. A document that had no
\* version gets its first one only through createVersion, the call a save
\* makes.
C19_CreateDocumentStoresNoVersion ==
  /\ last.op = "createDocument" =>
        /\ last.ok
        /\ documents = Append(last.documents, last.answer)
        /\ last.answer.content = last.args[1]
        /\ FindDocument(last.documents, last.answer.id) = 0
        /\ versions = last.versions
        /\ getVersionsCall(documents, versions, last.answer.id).result = <<>>
  /\ last.op # "none" =>
        \A i \in DOMAIN documents :
          (/\ Filter(last.versions, documents[i].id) = <<>>
           /\ Filter(versions, documents[i].id) # <<>>) =>
            /\ last.op = "createVersion"
            /\ last.args[1] = documents[i].id
            /\ Len(Filter(versions, documents[i].id)) = 1

\* a document has just been created in a store that holds created versions
C19_Witness ==
  /\ last.op = "createDocument"
  /\ last.ok
  /\ Len(documents) = 2
  /\ Len(versions) > 2

\* the created document has just got its first version
FirstVersionBySave ==
  /\ last.op = "createVersion"
  /\ last.ok
  /\ Filter(last.versions, last.args[1]) = <<>>
  /\ Len(Filter(versions, last.args[1])) = 1

(* ---- claims on progress ---- *)

\* the createVersion requests the editor can send
SaveRequests ==
  { [op |-> "createVersion", documentId |-> d, content |-> c, isAutoSave |-> a] :
      d \in {ExampleDocId, UnknownId, IdNames[1]},
      c \in Typed \cup {version2Content},
      a \in BOOLEAN }

InFlight(q) == \E i \in DOMAIN pending : pending[i] = q
Completed(q) == last.op = "settled" /\ last.request = q

\* C20: every save that has been started is served in the end, whether the
\* store takes it or refuses it, and after every started save isSaving goes
\* back to false.
C20_SavesComplete ==
  /\ \A q \in SaveRequests : InFlight(q) ~> Completed(q)
  /\ editor.isSaving ~> ~editor.isSaving

\* a save the store refused has just come back and the editor is idle again
C20_Witness ==
  /\ last.op = "settled"
  /\ IsSave(last.request)
  /\ ~last.ok
  /\ last.before.editor.isSaving
  /\ ~editor.isSaving
  /\ pending = <<>>

\* every request in flight is one of SaveRequests or the createDocument of
\* the mount
RequestsAreKnown ==
  \A i \in DOMAIN pending :
    pending[i] \in SaveRequests \/ pending[i].op = "createDocument"

(* ---- claims on updating the current version ---- *)

\* the position in the store of the version that is HEAD of the document
HeadIndex(vs, documentId) == FindVersion(vs, documentId, HeadId(vs, documentId))
\* the version the HEAD was created from: the one listed right after it
ParentOfHead(vs, documentId) ==
  LET sorted == sortedVersions(Filter(vs, documentId))
  IN IF Len(sorted) > 1 THEN <<sorted[2]>> ELSE <<>>

EditorStoresOnlyParsedContent ==
  /\ \A k \in DOMAIN versions : CanParse(versions[k].content)
  /\ \A i \in DOMAIN pending :
       IsSave(pending[i]) => CanParse(pending[i].content)
  /\ (last.op \in {"handleSave", "autoSaveTick"} /\ ~last.before.editor.isValid) =>
        /\ pending = last.before.pending
        /\ versions = last.before.versions
        /\ documents = last.before.documents

\* the timer has just fired on changed content that is not valid
InvalidContentNotSaved ==
  /\ last.op = "autoSaveTick"
  /\ ~last.before.editor.isValid
  /\ last.before.editor.hasChangesRef

(* ---- claims on the diff of two trees ---- *)

\* C23: for all trees a and b of the bounded set, applying diff(a, b) to a
\* gives a tree deep-equal to b
C23_ApplyOfDiffGivesNew ==
  last.op = "diff" => last.applied = last.b

\* two lists compared, with a removal, an addition and a change inside an
\* element that kept its identity, and the patch applied gives the new list
C23_Witness ==
  /\ last.op = "diff"
  /\ last.a.t = "list"
  /\ last.b.t = "list"
  /\ \E p, q, r \in DOMAIN last.patch :
        /\ last.patch[p].op = "remove"
        /\ last.patch[q].op = "add"
        /\ last.patch[r].op = "replace"
  /\ last.applied = last.b

\* y holds the elements of x, each as often as x does
IsPermutation(x, y) ==
  /\ Len(x) = Len(y)
  /\ \E f \in [DOMAIN x -> DOMAIN x] :
        /\ \A i, j \in DOMAIN x : i # j => f[i] # f[j]
        /\ \A i \in DOMAIN x : y[i] = x[f[i]]

OnlyMoves(patch) == \A p \in DOMAIN patch : patch[p].op = "move"

Reordered ==
  /\ last.op = "diff"
  /\ last.a.t = "list"
  /\ last.b.t = "list"
  /\ IsPermutation(last.a.e, last.b.e)

\* elements of x with the same identity hash are the same element
HashesTellApart(x) ==
  \A i, j \in DOMAIN x : objectHash(x[i]) = objectHash(x[j]) => x[i] = x[j]

\* C25 as stated: when the new list is a permutation of the old list, the
\* diff holds only Move operations
C25_PermutationOnlyMoves ==
  Reordered => OnlyMoves(last.patch)

\* C25: when the new list is a permutation of the old list and no two
\* different elements of it share an identity hash, the diff holds only Move
\* operations
C25_PermutationOfToldApartOnlyMoves ==
  (Reordered /\ HashesTellApart(last.a.e)) => OnlyMoves(last.patch)

\* a list of three elements told apart by their hashes, reversed: two moves
C25_Witness ==
  /\ Reordered
  /\ HashesTellApart(last.a.e)
  /\ Len(last.a.e) = 3
  /\ Len(last.patch) = 2
  /\ OnlyMoves(last.patch)
  /\ \E i \in DOMAIN last.a.e : "id" \in Keys(last.a.e[i])

\* C26: the identity hash of a map with the key "id" is the value stored
\* under "id", whatever that value is; the hash of every other element is the
\* serialization of the whole value
C26_HashIsIdValue ==
  last.op = "objectHash" =>
    last.hash = IF "id" \in Keys(last.obj) THEN last.obj.m["id"]
                ELSE stringify(last.obj)

\* two texts hold the same tree: the same value when both parse, the same text
\* otherwise
SameTree(x, y) ==
  IF CanParse(x) /\ CanParse(y) THEN JSON_parse(x) = JSON_parse(y) ELSE x = y

\* the diff of a tree with itself holds no operation
DiffOfEqualTreesIsEmpty == \A a \in Trees : diff(<<>>, a, a) = <<>>

\* a save of the editor was served and stored a version of content that holds
\* the same tree as the content the document had
SavedSameTree ==
  /\ last.op = "settled"
  /\ IsSave(last.request)
  /\ last.ok
  /\ LET i == FindDocument(last.before.documents, last.request.documentId)
     IN SameTree(last.before.documents[i].content, last.request.content)

\* C24: diff(a, a) is the empty patch for every tree a; so a createVersion
\* whose new content is structurally equal to the content the document had
\* stores an empty patch
C24_EqualContentStoresEmptyPatch ==
  /\ DiffOfEqualTreesIsEmpty
  /\ SavedSameTree => Patch(Latest(versions)) = NoDiff

\* the stored content and the saved content are two texts of one value
C24_Witness ==
  /\ SavedSameTree
  /\ LET i == FindDocument(last.before.documents, last.request.documentId)
     IN last.before.documents[i].content # last.request.content
  /\ Latest(versions).content = last.request.content

(* ---- claims on what an autosave tick writes ---- *)

\* C27: the content an autosave tick writes is the content the editor holds
\* when the tick fires: the request the tick sends carries it, the version
\* stored for the request holds it, and the baseline of the last save recorded
\* after the save is that same content
C27_TickWritesCurrentContent ==
  /\ (last.op = "autoSaveTick" /\ last.started) =>
        pending[Len(pending)].content = last.before.editor.content
  /\ (last.op = "settled" /\ IsSave(last.request) /\ last.request.isAutoSave
        /\ last.ok) =>
        /\ Latest(versions).content = last.request.content
        /\ editor.lastSavedContentRef = last.request.content

(* ---- claims on ids ---- *)

\* C28: no two stored versions have the same id and no two documents have the
\* same id, so a document id and a version id together name at most one
\* version
C28_IdsAreUnique ==
  /\ \A i, j \in DOMAIN versions : versions[i].id = versions[j].id => i = j
  /\ \A i, j \in DOMAIN documents : documents[i].id = documents[j].id => i = j
  /\ \A documentId \in DocumentIds, versionId \in VersionIds :
        Cardinality({k \in DOMAIN versions :
                       /\ versions[k].documentId = documentId
                       /\ versions[k].id = versionId}) <= 1

(* ---- claims on merge sources and on other documents ---- *)

\* C29: each version that carries a mergedFrom id names a version that is in
\* the store, belongs to the same document and was appended before it
C29_MergeSourceExists ==
  \A i \in DOMAIN versions :
    "mergedFrom" \in DOMAIN versions[i] =>
      \E j \in 1..(i - 1) :
        /\ versions[j].id = versions[i].mergedFrom
        /\ versions[j].documentId = versions[i].documentId

\* a merge version whose source is a merge version, beside a second document
\* that has a version of its own
C29_Witness ==
  /\ \E i, j \in DOMAIN versions :
        /\ "mergedFrom" \in DOMAIN versions[i]
        /\ "mergedFrom" \in DOMAIN versions[j]
        /\ versions[i].mergedFrom = versions[j].id
  /\ Len(documents) = 2

ContentOf(docs, id) == docs[FindDocument(docs, id)].content

\* C30: createVersion and mergeVersions on a document leave every other
\* document as it was: its content and the list of its versions
C30_OtherDocumentsUntouched ==
  last.op \in {"createVersion", "mergeVersions"} =>
    \A i \in DOMAIN last.documents :
      LET id == last.documents[i].id
      IN id # last.args[1] =>
           /\ FindDocument(documents, id) # 0
           /\ ContentOf(documents, id) = ContentOf(last.documents, id)
           /\ Filter(versions, id) = Filter(last.versions, id)

\* a createVersion that stored a version, beside a second document whose
\* content is not the content stored and which has a version of its own
C30_Witness ==
  /\ last.op = "createVersion"
  /\ last.ok
  /\ \E i \in DOMAIN documents :
        /\ documents[i].id # last.args[1]
        /\ documents[i].content # last.args[2]
        /\ Filter(versions, documents[i].id) # <<>>

====
